---- MODULE Spec2Model ----
(***************************************************************************)
(* Model of the cleaning-robot simulation of src/robot.py: the model       *)
(* CleaningRobots, its RobotAgent and DirtyCell agents, the MultiGrid      *)
(* (torus) they live on and the RandomActivation schedule that activates   *)
(* them.  One call of CleaningRobots.step() is one action.                 *)
(*                                                                         *)
(* Library semantics used (Mesa 2.x, the API the source is written for):   *)
(*   MultiGrid(width, height, True)  torus, several agents per cell;       *)
(*   get_neighborhood(pos, moore=True, include_center=False)  the wrapped  *)
(*     cells at offsets -1..1, without duplicates, pos itself removed;     *)
(*   random.choice(seq)  raises IndexError on an empty sequence;           *)
(*   RandomActivation.step()  activates every agent once, shuffled.        *)
(***************************************************************************)
EXTENDS Integers, Sequences, FiniteSets

\* ---- bounds of the model ----
MaxWidth == 2
MaxHeight == 2
MaxR == 2
MaxC == 2
MaxSteps == 2
MaxCalls == 3

VARIABLES
    width, height,      \* grid.width, grid.height
    max_steps,          \* self.max_steps
    C,                  \* the constructor argument C
    num_agentsR,        \* self.num_agentsR
    num_agentsC,        \* self.num_agentsC (after the += of line 90)
    grid,               \* MultiGrid contents: cell -> set of agent ids
    pos,                \* agent.pos, for every agent
    vacuuming,          \* RobotAgent.vacuuming
    moves,              \* RobotAgent.moves
    isClean,            \* DirtyCell.isClean
    current_step,       \* self.current_step
    running,            \* self.running
    start_time,         \* self.start_time
    elapsed_time,       \* self.elapsed_time: None or <<seconds>>
    now,                \* the wall clock read by time.time()
    err,                \* exception that escaped the last step() call
    calls,              \* number of step() calls made so far
    activated,          \* robots whose step() was entered in the last call
    activation_seq,     \* the same robots, in the order of their activation
    cleaned_by,         \* history: dirty spot -> robots whose clean() turned it clean
    vac_ticks,          \* history: robot -> activations entered with vacuuming = True
    still               \* history: robot -> latest activations in a row without a move

vars == <<width, height, max_steps, C, num_agentsR, num_agentsC, grid, pos,
          vacuuming, moves, isClean, current_step, running, start_time,
          elapsed_time, now, err, calls, activated, activation_seq,
          cleaned_by, vac_ticks, still>>

None == <<>>

\* ---- the agent population ----
NumAgentsC_NoOffset(r, c) == c

\* line 90: self.num_agentsC += self.num_agentsR
NumAgentsC(r, c) == c + r

\* line 85: range(self.num_agentsR)
RobotRange(nR) == 0 .. (nR - 1)

DirtyRangeFromZero(nR, nC) == 0 .. (nC - nR - 1)

\* line 92: range(self.num_agentsR, self.num_agentsC)
DirtyRange(nR, nC) == nR .. (nC - 1)

Robots == DOMAIN vacuuming
DirtyCells == DOMAIN isClean
Agents == DOMAIN pos

\* ---- the grid ----
Cells(w, h) == (0 .. (w - 1)) \X (0 .. (h - 1))

\* MultiGrid.get_neighborhood(pos, moore=True, include_center=False), torus
Neighborhood(p) ==
    { <<(p[1] + dx) % width, (p[2] + dy) % height>> :
          dx \in {-1, 0, 1}, dy \in {-1, 0, 1} } \ {p}

\* MultiGrid.place_agent on an empty grid, for all agents at once
PlaceAll(w, h, p) ==
    [c \in Cells(w, h) |-> {a \in DOMAIN p : p[a] = c}]

\* ---- RobotAgent ----
\* The part of the model's state the agents act on.
AgentState ==
    [grid |-> grid, pos |-> pos, vacuuming |-> vacuuming, moves |-> moves,
     isClean |-> isClean, err |-> "none", activated |-> {},
     activation_seq |-> <<>>, cleaned_by |-> cleaned_by,
     vac_ticks |-> vac_ticks, still |-> still]

MoveNoRemove(s, i, new_position) ==
    [s EXCEPT !.grid = [s.grid EXCEPT ![new_position] = @ \cup {i}],
              !.pos = [s.pos EXCEPT ![i] = new_position],
              !.moves = [s.moves EXCEPT ![i] = @ + 1],
              !.still = [s.still EXCEPT ![i] = 0]]

\* RobotAgent.move after the choice: grid.move_agent and moves += 1
Move(s, i, new_position) ==
    LET old == s.pos[i]
        g1 == [s.grid EXCEPT ![old] = @ \ {i}]
        g2 == [g1 EXCEPT ![new_position] = @ \cup {i}]
    IN [s EXCEPT !.grid = g2,
                 !.pos = [s.pos EXCEPT ![i] = new_position],
                 !.moves = [s.moves EXCEPT ![i] = @ + 1],
                 !.still = [s.still EXCEPT ![i] = 0]]

CleanToggle(s, i) ==
    LET cellmates == s.grid[s.pos[i]]
        hit == cellmates \cap DOMAIN s.isClean
    IN [s EXCEPT !.isClean = [d \in DOMAIN s.isClean |->
                                 IF d \in hit THEN ~s.isClean[d]
                                              ELSE s.isClean[d]],
                 !.vacuuming = [s.vacuuming EXCEPT ![i] = @ \/ hit # {}]]

\* the effect of clean() by robot i when it sets isClean on the spots in hit
Cleaned(s, i, hit) ==
    [s EXCEPT !.isClean = [d \in DOMAIN s.isClean |-> s.isClean[d] \/ d \in hit],
              !.vacuuming = [s.vacuuming EXCEPT ![i] = @ \/ hit # {}],
              !.cleaned_by = [d \in DOMAIN s.cleaned_by |->
                                 IF d \in hit THEN s.cleaned_by[d] \cup {i}
                                              ELSE s.cleaned_by[d]]]

CleanFirstOnly(s, i) ==
    LET dirty == {d \in s.grid[s.pos[i]] \cap DOMAIN s.isClean : ~s.isClean[d]}
    IN Cleaned(s, i, IF dirty = {} THEN {} ELSE {CHOOSE d \in dirty : TRUE})

CleanNoGuard(s, i) ==
    Cleaned(s, i, s.grid[s.pos[i]] \cap DOMAIN s.isClean)

CleanEverywhere(s, i) ==
    Cleaned(s, i, {d \in DOMAIN s.isClean : ~s.isClean[d]})

\* RobotAgent.clean
Clean(s, i) ==
    LET cellmates == s.grid[s.pos[i]]
        hit == {d \in cellmates \cap DOMAIN s.isClean : ~s.isClean[d]}
    IN [s EXCEPT !.isClean = [d \in DOMAIN s.isClean |->
                                 s.isClean[d] \/ d \in hit],
                 !.vacuuming = [s.vacuuming EXCEPT ![i] = @ \/ hit # {}],
                 !.cleaned_by = [d \in DOMAIN s.cleaned_by |->
                                    IF d \in hit THEN s.cleaned_by[d] \cup {i}
                                                 ELSE s.cleaned_by[d]]]

RobotStepCleanFirst(s, i, new_position) ==
    LET entered == [s EXCEPT !.activated = @ \cup {i},
                             !.activation_seq = Append(@, i),
                             !.vac_ticks = [s.vac_ticks EXCEPT ![i] =
                                               IF s.vacuuming[i] THEN @ + 1 ELSE @],
                             !.still = [s.still EXCEPT ![i] = @ + 1]]
    IN IF ~s.vacuuming[i]
       THEN IF Neighborhood(s.pos[i]) = {}
            THEN [entered EXCEPT !.err = "IndexError"]
            ELSE Clean(Move(Clean(entered, i), i, new_position), i)
       ELSE LET c == Clean(entered, i)
            IN [c EXCEPT !.vacuuming = [c.vacuuming EXCEPT ![i] = FALSE]]

\* RobotAgent.step; new_position is the cell random.choice returns when the
\* neighbourhood is not empty.  random.choice raises IndexError otherwise.
RobotStep(s, i, new_position) ==
    LET entered == [s EXCEPT !.activated = @ \cup {i},
                             !.activation_seq = Append(@, i),
                             !.vac_ticks = [s.vac_ticks EXCEPT ![i] =
                                               IF s.vacuuming[i] THEN @ + 1 ELSE @],
                             !.still = [s.still EXCEPT ![i] = @ + 1]]
    IN IF ~s.vacuuming[i]
       THEN IF Neighborhood(s.pos[i]) = {}
            THEN [entered EXCEPT !.err = "IndexError"]
            ELSE Clean(Move(entered, i, new_position), i)
       ELSE LET c == Clean(entered, i)
            IN [c EXCEPT !.vacuuming = [c.vacuuming EXCEPT ![i] = FALSE]]

\* DirtyCell.step: pass
DirtyStep(s, d) == s

\* ---- RandomActivation ----
\* The orders a shuffle can put the robots in.  DirtyCell.step is `pass`, so
\* where the dirty cells fall in the shuffled order changes no state; they
\* are activated after the robots, in any fixed order.
Orders(S) ==
    {f \in [1 .. Cardinality(S) -> S] : \A a \in S : \E k \in DOMAIN f : f[k] = a}

RECURSIVE SetToSeq(_)
SetToSeq(S) ==
    IF S = {} THEN <<>>
    ELSE LET a == CHOOSE x \in S : TRUE IN <<a>> \o SetToSeq(S \ {a})

\* The cells random.choice can return for each robot in this tick.
Picks ==
    {f \in [Robots -> Cells(width, height)] :
        \A i \in Robots :
            IF vacuuming[i] \/ Neighborhood(pos[i]) = {}
            THEN f[i] = pos[i]
            ELSE f[i] \in Neighborhood(pos[i])}

RECURSIVE ScheduleStep(_, _, _, _)
\* RandomActivation.step: the agents' step() in the shuffled order; an
\* exception ends the loop.
ScheduleStep(s, order, pick, k) ==
    IF k > Len(order) \/ s.err # "none" THEN s
    ELSE LET a == order[k]
             t == IF a \in DOMAIN s.vacuuming THEN RobotStep(s, a, pick[a])
                                              ELSE DirtyStep(s, a)
         IN ScheduleStep(t, order, pick, k + 1)

\* ---- CleaningRobots ----
\* all_cells_clean over an isClean map
AllCellsClean(ic) == \A d \in DOMAIN ic : ic[d]

all_cells_clean == AllCellsClean(isClean)

CleanCells(ic) == Cardinality({d \in DOMAIN ic : ic[d]})

\* get_clean_percentage: (clean_cells / total_dirty_cells) * 100 as the
\* fraction <<numerator, denominator>>; defined when the denominator is not 0
GetCleanPercentage(ic, nR, nC) == <<CleanCells(ic) * 100, nC - nR>>

get_clean_percentage == GetCleanPercentage(isClean, num_agentsR, num_agentsC)

\* total_moves
RECURSIVE SumMoves(_, _)
SumMoves(m, S) ==
    IF S = {} THEN 0
    ELSE LET i == CHOOSE x \in S : TRUE IN m[i] + SumMoves(m, S \ {i})

total_moves == SumMoves(moves, Robots)

\* CleaningRobots.__init__
Constructed ==
    /\ num_agentsC = NumAgentsC(num_agentsR, C)
    /\ \E dirt \in [DirtyRange(num_agentsR, num_agentsC) -> Cells(width, height)] :
          /\ pos = [a \in RobotRange(num_agentsR) \cup DOMAIN dirt |->
                       IF a \in RobotRange(num_agentsR) THEN <<0, 0>> ELSE dirt[a]]
          /\ isClean = [d \in DOMAIN dirt |-> FALSE]
    /\ grid = PlaceAll(width, height, pos)
    /\ vacuuming = [i \in RobotRange(num_agentsR) |-> FALSE]
    /\ moves = [i \in RobotRange(num_agentsR) |-> 0]
    /\ current_step = 0
    /\ running = TRUE
    /\ start_time = 0
    /\ elapsed_time = None
    /\ now = 0
    /\ calls = 0
    /\ activated = {}
    /\ activation_seq = <<>>
    /\ cleaned_by = [d \in DOMAIN isClean |-> {}]
    /\ vac_ticks = [i \in RobotRange(num_agentsR) |-> 0]
    /\ still = [i \in RobotRange(num_agentsR) |-> 0]

\* CleaningRobots(R, C, width, height, max_steps) with valid arguments
Init ==
    /\ width \in 1 .. MaxWidth
    /\ height \in 1 .. MaxHeight
    /\ max_steps \in 1 .. MaxSteps
    /\ C \in 0 .. MaxC
    /\ num_agentsR \in 0 .. MaxR
    /\ err = "none"
    /\ Constructed

\* The exception that escapes CleaningRobots.__init__, "none" if it returns.
\* Nothing in the constructor checks its arguments.  Whether the library's
\* grid rejects a dimension below 1 depends on its version (rejects).
\* Otherwise line 88 indexes the cell (0, 0), which a grid without cells
\* does not have, and line 95 or 96 calls randrange on an empty range.
CtorOutcome(w, h, r, c, rejects) ==
    IF (w <= 0 \/ h <= 0) /\ rejects THEN "ValueError"
    ELSE IF r > 0 /\ <<0, 0>> \notin Cells(w, h) THEN "IndexError"
    ELSE IF c > 0 /\ Cells(w, h) = {} THEN "ValueError"
    ELSE "none"

\* No model: the constructor raised and the caller holds no object.
NoModel ==
    /\ num_agentsC = C
    /\ pos = <<>> /\ isClean = <<>> /\ grid = <<>>
    /\ vacuuming = <<>> /\ moves = <<>>
    /\ current_step = 0 /\ running = FALSE
    /\ start_time = 0 /\ elapsed_time = None /\ now = 0
    /\ calls = 0 /\ activated = {} /\ activation_seq = <<>>
    /\ cleaned_by = <<>> /\ vac_ticks = <<>> /\ still = <<>>

\* CleaningRobots(R, C, width, height, max_steps) with any integers for the
\* counts and the dimensions
InitAny ==
    /\ width \in 0 .. MaxWidth
    /\ height \in 0 .. MaxHeight
    /\ max_steps \in 1 .. MaxSteps
    /\ C \in (-1) .. MaxC
    /\ num_agentsR \in (-1) .. MaxR
    /\ \E rejects \in BOOLEAN :
          err = CtorOutcome(width, height, num_agentsR, C, rejects)
    /\ IF err = "none" THEN Constructed ELSE NoModel

\* CleaningRobots.step.  The clock advances between two calls.
StepBody(order, pick) ==
    LET s == ScheduleStep(AgentState, order \o SetToSeq(DirtyCells), pick, 1)
        step1 == current_step + 1
        ends == AllCellsClean(s.isClean) \/ step1 >= max_steps
    IN /\ calls' = calls + 1
       /\ now' = now + 1
       /\ grid' = s.grid
       /\ pos' = s.pos
       /\ vacuuming' = s.vacuuming
       /\ moves' = s.moves
       /\ isClean' = s.isClean
       /\ activated' = s.activated
       /\ activation_seq' = s.activation_seq
       /\ cleaned_by' = s.cleaned_by
       /\ vac_ticks' = s.vac_ticks
       /\ still' = s.still
       /\ IF s.err # "none"
          THEN \* schedule.step() raised: lines 118-127 are not reached
               /\ err' = s.err
               /\ UNCHANGED <<current_step, elapsed_time, running>>
          ELSE /\ current_step' = step1
               /\ IF ends
                  THEN /\ elapsed_time' = <<now' - start_time>>
                       /\ IF GetCleanPercentage(s.isClean, num_agentsR, num_agentsC)[2] = 0
                          THEN \* line 125 divides by zero; line 127 is not reached
                               /\ err' = "ZeroDivisionError"
                               /\ UNCHANGED running
                          ELSE /\ err' = "none"
                               /\ running' = FALSE
                  ELSE /\ err' = "none"
                       /\ UNCHANGED <<elapsed_time, running>>
       /\ UNCHANGED <<width, height, max_steps, C, num_agentsR, num_agentsC, start_time>>

\* the driver loop: while model.running: model.step()
DriverStep ==
    /\ err = "none"
    /\ running
    /\ calls < MaxCalls
    /\ \E order \in Orders(Robots), pick \in Picks :
          StepBody(order, pick)

\* step() called again by a caller that did not check running
ExtraStep ==
    /\ err = "none"
    /\ ~running
    /\ calls < MaxCalls
    /\ \E order \in Orders(Robots), pick \in Picks :
          StepBody(order, pick)

Next == DriverStep \/ ExtraStep

Spec == Init /\ [][Next]_vars

SpecCtor == InitAny /\ [][Next]_vars

TypeOK ==
    /\ current_step \in 0 .. MaxCalls
    /\ running \in BOOLEAN
    /\ err \in {"none", "IndexError", "ZeroDivisionError"}
    /\ \A a \in Agents : pos[a] \in Cells(width, height)

\* ---- helpers of the properties ----
StepCall == calls' = calls + 1

\* the fraction f = <<n, d>> with d > 0 equals the integer v
FracEq(f, v) == f[1] = v * f[2]

\* ---- properties ----

\* C1: with C = 0 dirty spots all_cells_clean() holds in the initial state,
\* and the first step() returns without raising, leaving running = false,
\* current_step = 1 and get_clean_percentage() defined.
C1_VacuousTermination ==
    C = 0 =>
        /\ calls = 0 => all_cells_clean
        /\ calls = 1 => /\ err = "none"
                        /\ ~running
                        /\ current_step = 1
                        /\ get_clean_percentage[2] # 0

\* C2: current_step never exceeds max_steps, whatever sequence of step()
\* calls is made, calls after running became false included.
C2_StepBound == current_step <= max_steps

\* C3: a step() made when running is already false changes neither
\* current_step, elapsed_time, any robot's position, vacuuming or moves, nor
\* any dirty spot's isClean.
C3_StoppedStepIsNoOp ==
    [][(~running /\ StepCall) =>
          UNCHANGED <<current_step, elapsed_time, pos, vacuuming, moves, isClean>>]_vars

\* C4: after a step() made from a running state, running is false exactly
\* when all dirty spots are clean or current_step >= max_steps; and running,
\* once false, is never set back to true.
C4_StopCondition ==
    [][StepCall =>
          /\ running => (~running' <=> (all_cells_clean' \/ current_step' >= max_steps))
          /\ ~running => ~running']_vars

\* C5: the driver loop ends with running = false after at most max_steps
\* calls of step(): it neither runs longer nor ends any other way.
C5_DriverTerminates ==
    (calls >= max_steps \/ err # "none") => ~running

\* C6: on the 1x1 grid with one robot and one dirty spot the first
\* activation does not raise and cleans the spot, and the simulation ends
\* with get_clean_percentage() = 100.
C6_OneCellGrid ==
    (width = 1 /\ height = 1 /\ num_agentsR = 1 /\ C = 1 /\ calls >= 1) =>
        /\ err = "none"
        /\ \A d \in DirtyCells : isClean[d]
        /\ ~running
        /\ FracEq(get_clean_percentage, 100)

\* C7: in every step() each robot's moves is unchanged or one greater, and
\* it is one greater exactly when the robot was activated with
\* vacuuming = false.
C7_MovesMonotonic ==
    [][StepCall =>
          \A i \in Robots :
              /\ moves'[i] = moves[i] \/ moves'[i] = moves[i] + 1
              /\ moves'[i] = moves[i] + 1 <=> (i \in activated' /\ ~vacuuming[i])]_vars

\* C8: a dirty spot that is clean stays clean in every later state.
C8_CleanIsSticky ==
    [][\A d \in DirtyCells : isClean[d] => isClean'[d]]_vars

\* A robot stands, not vacuuming, on a clean spot after having moved: its
\* scan ran over a spot that was already clean.
C8_Witness ==
    \E d \in DirtyCells, i \in Robots :
        /\ isClean[d]
        /\ pos[i] = pos[d]
        /\ ~vacuuming[i]
        /\ moves[i] >= 1
        /\ i \in activated

\* C9: exactly C DirtyCell agents exist, and when C > 0
\* get_clean_percentage() is 100 * (clean dirty spots) / (dirty spots), lies
\* in [0, 100] and is 100 exactly when all_cells_clean() holds.
C9_CleanPercentage ==
    /\ Cardinality(DirtyCells) = C
    /\ C > 0 =>
        LET f == get_clean_percentage
            clean == Cardinality({d \in DirtyCells : isClean[d]})
        IN /\ f[2] > 0
           /\ f[1] * Cardinality(DirtyCells) = 100 * clean * f[2]
           /\ 0 <= f[1] /\ f[1] <= 100 * f[2]
           /\ FracEq(f, 100) <=> all_cells_clean

\* Some but not all of the dirty spots are clean, beside at least one robot.
C9_Witness ==
    /\ num_agentsR > 0
    /\ \E d \in DirtyCells : isClean[d]
    /\ \E d \in DirtyCells : ~isClean[d]

\* C10: elapsed_time is None while running is true and set once running is
\* false.
C10_ElapsedTime ==
    /\ running => elapsed_time = None
    /\ ~running => elapsed_time # None

\* C11: a constructor call with a width or height below 1, or a negative
\* R or C, fails with InvalidConfigurationError and yields no model: no
\* agent is created or placed.
C11_InvalidConfiguration ==
    (width < 1 \/ height < 1 \/ num_agentsR < 0 \/ C < 0) =>
        /\ err = "InvalidConfigurationError"
        /\ Agents = {}

\* the place of robot i in the order of activation seq
Idx(seq, i) == CHOOSE k \in 1 .. Len(seq) : seq[k] = i

\* the dirty spots robot i turned clean in this step
TurnedBy(i) == {d \in DirtyCells : i \in cleaned_by'[d] /\ i \notin cleaned_by[d]}

\* C13: a robot activated with vacuuming = false moves to a cell of the
\* Moore neighbourhood of its position, leaves every dirty spot of that cell
\* clean, and ends vacuuming exactly when it turned a spot clean.
C13_IdleActivation ==
    [][StepCall =>
          \A i \in Robots :
              (i \in activated' /\ ~vacuuming[i]) =>
                  /\ pos'[i] \in Neighborhood(pos[i])
                  /\ \A d \in DirtyCells : pos[d] = pos'[i] => isClean'[d]
                  /\ vacuuming'[i] <=> TurnedBy(i) # {}]_vars

\* C14: every dirty spot in the cell of a vacuuming robot is clean; a robot
\* activated with vacuuming = true keeps its position and moves, ends with
\* vacuuming = false and turns no spot clean.
C14_VacuumingActivation ==
    /\ [](\A i \in Robots, d \in DirtyCells :
              (vacuuming[i] /\ pos[d] = pos[i]) => isClean[d])
    /\ [][StepCall =>
             \A i \in Robots :
                 (i \in activated' /\ vacuuming[i]) =>
                     /\ pos'[i] = pos[i]
                     /\ moves'[i] = moves[i]
                     /\ ~vacuuming'[i]
                     /\ TurnedBy(i) = {}]_vars

\* A robot's latest activation was one entered with vacuuming = true.
C14_Witness ==
    \E i \in Robots :
        /\ i \in activated
        /\ err = "none"
        /\ still[i] = 1
        /\ vac_ticks[i] >= 1
        /\ ~vacuuming[i]

\* C15: every step() activates every agent exactly once; so each robot's
\* moves plus its activations with vacuuming = true is the number of
\* completed steps, no robot stays two activations in a row without moving,
\* and total_moves() is at most R times the number of completed steps.
C15_ActivationCount ==
    /\ [](\A i \in Robots : /\ moves[i] + vac_ticks[i] = current_step
                            /\ still[i] <= 1)
    /\ [](total_moves <= num_agentsR * current_step)
    /\ [][StepCall =>
             /\ activated' = Robots
             /\ Len(activation_seq') = Cardinality(Robots)]_vars

\* C16: each clean spot was turned clean by exactly one robot; of the robots
\* that move in one tick into a cell holding a dirty spot, the one activated
\* first turns the spots of the cell clean and becomes vacuuming, the others
\* stay vacuuming = false.
C16_FirstArrivalCleans ==
    /\ [](\A d \in DirtyCells :
              Cardinality(cleaned_by[d]) = IF isClean[d] THEN 1 ELSE 0)
    /\ [][StepCall =>
             \A c \in Cells(width, height) :
                 LET arrivals == {i \in activated' :
                                     /\ ~vacuuming[i]
                                     /\ moves'[i] = moves[i] + 1
                                     /\ pos'[i] = c}
                     dirty == {d \in DirtyCells : pos[d] = c /\ ~isClean[d]}
                 IN (arrivals # {} /\ dirty # {}) =>
                        \E f \in arrivals :
                            /\ vacuuming'[f]
                            /\ \A d \in dirty : cleaned_by'[d] = {f}
                            /\ \A j \in arrivals \ {f} :
                                  /\ ~vacuuming'[j]
                                  /\ Idx(activation_seq', f) < Idx(activation_seq', j)]_vars

\* Two robots arrived in the same tick at the cell of a spot; one turned it
\* clean and is vacuuming, the other is not.
C16_Witness ==
    \E i \in Robots, j \in Robots, d \in DirtyCells :
        /\ i # j
        /\ {i, j} \subseteq activated
        /\ pos[i] = pos[d] /\ pos[j] = pos[d]
        /\ still[i] = 0 /\ still[j] = 0
        /\ vacuuming[i] /\ ~vacuuming[j]
        /\ cleaned_by[d] = {i}

\* C17: every agent's position is a cell of the grid and the agent is an
\* occupant of that cell and of no other; a step changes the cell
\* membership of no agent whose position it leaves unchanged.
C17_GridMatchesPositions ==
    /\ [](\A a \in Agents :
              /\ pos[a] \in Cells(width, height)
              /\ \A c \in Cells(width, height) : a \in grid[c] <=> c = pos[a])
    /\ [][StepCall =>
             \A a \in Agents :
                 pos'[a] = pos[a] =>
                     \A c \in Cells(width, height) : a \in grid'[c] <=> a \in grid[c]]_vars

\* A robot has moved into a cell that another agent occupies, while a
\* further agent is elsewhere.
C17_Witness ==
    \E i \in Robots, a \in Agents, b \in Agents :
        /\ a # i
        /\ moves[i] >= 1
        /\ pos[a] = pos[i]
        /\ {i, a} \subseteq grid[pos[i]]
        /\ pos[b] # pos[i]

\* C18: the activation of a dirty spot changes nothing, no step changes the
\* position of a dirty spot, and isClean changes only for a spot that a
\* robot standing in the same cell has cleaned.
C18_DirtyCellFrame ==
    /\ [](\A d \in DirtyCells : DirtyStep(AgentState, d) = AgentState)
    /\ [][StepCall =>
             \A d \in DirtyCells :
                 /\ pos'[d] = pos[d]
                 /\ isClean'[d] # isClean[d] =>
                       \E i \in Robots : pos'[i] = pos[d] /\ d \in TurnedBy(i)]_vars

\* A spot was turned clean by a robot while another spot, elsewhere, is
\* still dirty.
C18_Witness ==
    \E d \in DirtyCells, e \in DirtyCells :
        /\ isClean[d] /\ cleaned_by[d] # {}
        /\ ~isClean[e] /\ pos[e] # pos[d]

\* C19: in the state the constructor produces all R robots are at (0, 0),
\* not vacuuming, with moves = 0; all C dirty spots are dirty and in bounds;
\* the ids are 0..R-1 and R..R+C-1; current_step = 0, running = true and
\* elapsed_time is unset.
C19_InitialState ==
    calls = 0 =>
        /\ Robots = 0 .. (num_agentsR - 1)
        /\ DirtyCells = num_agentsR .. (num_agentsR + C - 1)
        /\ Robots \cap DirtyCells = {}
        /\ Agents = Robots \cup DirtyCells
        /\ \A i \in Robots : pos[i] = <<0, 0>> /\ ~vacuuming[i] /\ moves[i] = 0
        /\ \A d \in DirtyCells : ~isClean[d] /\ pos[d] \in Cells(width, height)
        /\ current_step = 0
        /\ running
        /\ elapsed_time = None

\* A freshly constructed model with robots and a dirty spot away from the
\* origin.
C19_Witness ==
    /\ calls = 0
    /\ num_agentsR >= 1
    /\ \E d \in DirtyCells : pos[d] # <<0, 0>>

\* C20: a dirty spot turns clean in a tick only if a robot that was not
\* vacuuming moved into its cell from another cell in that tick; a spot at
\* the origin is still dirty after the first tick when (0, 0) is not its own
\* neighbour.
C20_CleansOnlyOnArrival ==
    /\ [][StepCall =>
             \A d \in DirtyCells :
                 (isClean'[d] /\ ~isClean[d]) =>
                     \E i \in activated' :
                         /\ ~vacuuming[i]
                         /\ moves'[i] = moves[i] + 1
                         /\ pos[i] # pos[d]
                         /\ pos'[i] = pos[d]]_vars
    /\ []((calls = 1 /\ <<0, 0>> \notin Neighborhood(<<0, 0>>)) =>
              \A d \in DirtyCells : pos[d] = <<0, 0>> => ~isClean[d])

\* After the first tick the robots have left the origin and the spot there
\* is still dirty.
C20_Witness ==
    /\ calls = 1
    /\ err = "none"
    /\ num_agentsR >= 1
    /\ \A i \in Robots : moves[i] = 1
    /\ \E d \in DirtyCells : pos[d] = <<0, 0>> /\ ~isClean[d]

====
